---------------------------- MODULE Spec2Model ----------------------------
(***************************************************************************)
(* Model of the image-comparison engine of fake-image-detection-tool       *)
(* (app/comparison.py): compare_images, detect_manipulation and            *)
(* generate_difference_image, as state machines over their statements.     *)
(*                                                                         *)
(* Numbers.  Python floats are modelled in fixed point: a score or a       *)
(* threshold s stands for s / Unit, a luma value y for y / Unit.  The      *)
(* non-finite floats are separate values (Nan, PosInf, NegInf).            *)
(*                                                                         *)
(* Pixel buffers.  An image is h identical rows of one scanline of w       *)
(* pixels (cols), so a pixel buffer is known by its scanline.  Solid       *)
(* fills (the images the test-suite builds with Image.new) and vertical    *)
(* stripes are of this shape.                                              *)
(***************************************************************************)
EXTENDS Integers, Sequences, FiniteSets, TLC

(* ------------------------------ bounds -------------------------------- *)

\* Largest width / height of an input image.
MaxSide == 33

\* The number of chunks a response body arrives in, at most.
MaxChunks == 3

(* ------------------------- program constants -------------------------- *)

\* Fixed-point unit: the float 1.0.
Unit == 100 * 100

\* comparison.py:17  DEFAULT_MANIPULATION_THRESHOLD = 0.98
DEFAULT_MANIPULATION_THRESHOLD == (98 * Unit) \div 100

\* comparison.py:20  MIN_IMAGE_SIZE = (32, 32)
MIN_IMAGE_SIZE == <<32, 32>>

\* comparison.py:75  luma weights [0.2989, 0.5870, 0.1140], in 1/Unit
LumaWeights == <<2989, 5870, 1140>>

\* comparison.py:85  data_range=255.0
DataRange == 255

\* comparison.py:85  structural_similarity defaults: win_size=7
WinSize == 7

\* comparison.py:171  diff_array * 3
AmplifyFactor == 3

(* ------------------------------ helpers ------------------------------- *)

Min(a, b) == IF a < b THEN a ELSE b
Max(a, b) == IF a > b THEN a ELSE b
Abs(a) == IF a < 0 THEN -a ELSE a

RECURSIVE SumSeq(_, _)
SumSeq(s, i) == IF i > Len(s) THEN 0 ELSE s[i] + SumSeq(s, i + 1)

(* ------------------------------ floats -------------------------------- *)

Nan == [k |-> "nan"]
PosInf == [k |-> "+inf"]
NegInf == [k |-> "-inf"]
Fin(v) == [k |-> "fin", v |-> v]
IsFinite(x) == x.k = "fin"

\* Python's x < y on floats: every comparison with NaN is False.
FloatLt(x, y) ==
    CASE x.k = "nan" \/ y.k = "nan" -> FALSE
      [] x.k = "+inf" -> FALSE
      [] y.k = "-inf" -> FALSE
      [] x.k = "-inf" -> TRUE
      [] y.k = "+inf" -> TRUE
      [] OTHER -> x.v < y.v

\* Python's builtin min(a, b): b if b < a else a.
PyMin(a, b) == IF FloatLt(b, a) THEN b ELSE a

\* Python's builtin max(a, b): b if b > a else a.
PyMax(a, b) == IF FloatLt(a, b) THEN b ELSE a

(* ------------------------------ images -------------------------------- *)

\* Number of channels of a PIL mode.
Bands(mode) == CASE mode = "L" -> 1 [] mode = "RGB" -> 3 [] mode = "RGBA" -> 4

\* A scanline of w pixels: colour a where x % per < k, colour b elsewhere.
Scanline(w, a, b, per, k) == [x \in 0 .. w - 1 |-> IF x % per < k THEN a ELSE b]

\* A decoded PIL image.  ok = FALSE: the pixel data cannot be decoded (a
\* truncated file), so the first operation that loads pixels raises OSError.
Img(mode, w, h, cols, ok) ==
    [kind |-> "image", mode |-> mode, w |-> w, h |-> h, cols |-> cols, ok |-> ok]

Solid(mode, w, h, c) == Img(mode, w, h, Scanline(w, c, c, 1, 0), TRUE)

IsImage(a) == a.kind = "image"

\* img.getpixel((x, y))
Pixel(img, x, y) == img.cols[x]

IsUniform(cols) == \A x \in DOMAIN cols : cols[x] = cols[0]


(* ----------------------- PIL / numpy operations ----------------------- *)

\* Image.convert('RGB') on one pixel: L replicates the grey value over the
\* three channels, RGBA drops the alpha channel.
ConvertPixel(mode, c) ==
    CASE mode = "L" -> <<c[1], c[1], c[1]>>
      [] mode = "RGBA" -> <<c[1], c[2], c[3]>>
      [] OTHER -> c

\* Image.convert('RGB'): a new image, same size.
ConvertRGB(img) ==
    [img EXCEPT !.mode = "RGB",
                !.cols = [x \in DOMAIN img.cols |-> ConvertPixel(img.mode, img.cols[x])]]

\* comparison.py:48-51 / 153-156: "if img.mode != 'RGB': img = img.convert('RGB')".
\* The conversion loads the pixel data, an RGB image is passed on untouched.
ConvertRaises(img) == img.mode # "RGB" /\ ~img.ok
ToRGB(img) == IF img.mode # "RGB" THEN ConvertRGB(img) ELSE img

\* comparison.py:54 / 56: the per-image minimum-size test.
TooSmall(w, h) == w < MIN_IMAGE_SIZE[1] \/ h < MIN_IMAGE_SIZE[2]

\* Variant: max in place of min.
TargetSizeMax(a, b) == <<Max(a.w, b.w), Max(a.h, b.h)>>

\* comparison.py:60 / 159: target_size = (min widths, min heights).
TargetSize(a, b) == <<Min(a.w, b.w), Min(a.h, b.h)>>

\* RGB scanlines a Lanczos pass may leave behind when it narrows a scanline
\* that is not a solid fill.  The resampled values are not computed: every
\* scanline of this set is a possible outcome.
ResampledScanlines(w) ==
    { Scanline(w, <<0, 0, 0>>, <<255, 255, 255>>, 4, 2),
      Scanline(w, <<90, 90, 90>>, <<160, 160, 160>>, 2, 1),
      Scanline(w, <<255, 0, 0>>, <<255, 0, 0>>, 1, 0) }

\* Image.resize(size, LANCZOS) at comparison.py:66-67 / 160-161: the set of
\* images it may return.  Same size: a copy.  Same width: only the vertical
\* pass runs, and rows are identical, so the scanline is kept.  A solid fill
\* stays a solid fill (the filter weights are normalised).
ResizeResults(img, size) ==
    IF <<img.w, img.h>> = size THEN {img}
    ELSE IF img.w = size[1] THEN {[img EXCEPT !.h = size[2]]}
    ELSE IF IsUniform(img.cols)
         THEN {[img EXCEPT !.w = size[1], !.h = size[2],
                           !.cols = [x \in 0 .. size[1] - 1 |-> img.cols[0]]]}
    ELSE {[img EXCEPT !.w = size[1], !.h = size[2], !.cols = c] :
              c \in ResampledScanlines(size[1])}

\* resize() (and the copy it makes for an unchanged size) loads the pixels.
ResizeRaises(img) == ~img.ok

\* comparison.py:75 / 80: np.dot(array[..., :3], [0.2989, 0.5870, 0.1140]),
\* one pixel, in 1/Unit.
Luma(c) == LumaWeights[1] * c[1] + LumaWeights[2] * c[2] + LumaWeights[3] * c[3]

\* comparison.py:70-82: np.array(img) and the grayscale projection.  The
\* array of an image has three axes when the image has more than one band;
\* a two-axis array is passed through (scaled to 1/Unit here).
ToGray(img) ==
    [w |-> img.w, h |-> img.h,
     g |-> [x \in DOMAIN img.cols |->
              IF Bands(img.mode) >= 3 THEN Luma(img.cols[x]) ELSE Unit * img.cols[x][1]]]

(* ------------------- skimage structural_similarity -------------------- *)

\* K1 = 0.01, K2 = 0.03, L = data_range: C1 = (K1 L)^2, C2 = (K2 L)^2, in 1/Unit
\* (Unit = 100^2, so the two factors 1/100 cancel against it).
SsimC1 == (1 * DataRange) * (1 * DataRange)
SsimC2 == (3 * DataRange) * (3 * DataRange)

\* Square root of Unit: means and deviations are kept in 1/Root so that
\* their products are in 1/Unit and fit the integer width.
Root == Unit \div 100

\* a / b in 1/Unit for 0 < b, |a| <= b; the operands are scaled down
\* together so that the product fits the integer width.
Ratio(a, b) ==
    LET k == b \div (10 * Unit) + 1
    IN  ((a \div k) * Unit) \div (b \div k)

\* The SSIM of the window whose left column is x0 (every row of the window
\* holds the same WinSize columns): local means, sample variances and sample
\* covariance, combined by the SSIM formula.  Result in 1/Unit.
SsimLocal(g1, g2, x0) ==
    LET NP == WinSize * WinSize
        a == [i \in 1 .. WinSize |-> g1[x0 + i - 1]]
        b == [i \in 1 .. WinSize |-> g2[x0 + i - 1]]
        ux == ((WinSize * SumSeq(a, 1)) \div NP) \div Root
        uy == ((WinSize * SumSeq(b, 1)) \div NP) \div Root
        da == [i \in 1 .. WinSize |-> a[i] \div Root - ux]
        db == [i \in 1 .. WinSize |-> b[i] \div Root - uy]
        vx == SumSeq([i \in 1 .. WinSize |-> WinSize * ((da[i] * da[i]) \div (NP - 1))], 1)
        vy == SumSeq([i \in 1 .. WinSize |-> WinSize * ((db[i] * db[i]) \div (NP - 1))], 1)
        vxy == SumSeq([i \in 1 .. WinSize |-> WinSize * ((da[i] * db[i]) \div (NP - 1))], 1)
        A1 == 2 * ux * uy + SsimC1
        B1 == ux * ux + uy * uy + SsimC1
        A2 == 2 * vxy + SsimC2
        B2 == vx + vy + SsimC2
    IN  (Ratio(A1, B1) * Ratio(A2, B2)) \div Unit

\* comparison.py:85: ssim(array1_gray, array2_gray, data_range=255.0), the
\* mean of the local SSIM over every window that lies inside the image.
Ssim(gray1, gray2) ==
    LET nx == gray1.w - WinSize + 1
        ny == gray1.h - WinSize + 1
        col == [i \in 1 .. nx |-> ny * SsimLocal(gray1.g, gray2.g, i - 1)]
    IN  Fin(SumSeq(col, 1) \div (nx * ny))

\* Variants: min and max exchanged; the upper clamp missing.
ClampSwapped(x) == PyMin(Fin(0), PyMax(Fin(Unit), x))
ClampLowOnly(x) == PyMax(Fin(0), x)

\* comparison.py:88: max(0.0, min(1.0, similarity_score)).
Clamp(x) == PyMax(Fin(0), PyMin(Fin(Unit), x))

(* --------------------------- decision layer --------------------------- *)

\* comparison.py:40: not isinstance(img1, Image.Image) or not isinstance(img2, ...)
NotImages(a, b) == ~IsImage(a) \/ ~IsImage(b)

\* Variant: the lower bound of the threshold test is missing.
ThresholdInvalidUpperOnly(t) == t > Unit

\* comparison.py:43: threshold < 0 or threshold > 1
ThresholdInvalid(t) == t < 0 \/ t > Unit

\* Variants: <= and > in place of <.
IsManipulatedLe(score, t) == ~FloatLt(Fin(t), score)
IsManipulatedGt(score, t) == FloatLt(Fin(t), score)

\* comparison.py:122: is_manipulated = similarity_score < threshold
IsManipulated(score, t) == FloatLt(score, Fin(t))

\* f"{x:.1f}" of the percentage num / den: the tenths it may print.  The
\* nearest tenth; on an exact tie the float's rounding error decides, so
\* both neighbours are possible.
Format1(num, den) ==
    LET n == 10 * num
        q == n \div den
        r == n % den
    IN  IF 2 * r < den THEN {q}
        ELSE IF 2 * r > den THEN {q + 1}
        ELSE {q, q + 1}

\* comparison.py:125 / 128: the local confidence, in percent, as the
\* fraction num / den.
Confidence(manipulated, s, t) ==
    IF manipulated
    THEN [num |-> (t - s) * 100, den |-> t]
    ELSE [num |-> s * 100, den |-> Unit]

\* Variant: the two branches build each other's message.
DetectMessagesSwapped(manipulated, s, t) ==
    IF manipulated
    THEN {[text |-> "No manipulation detected (similarity: ", tenths |-> x] :
              x \in Format1(s * 100, Unit)}
    ELSE {[text |-> "Manipulation detected (confidence: ", tenths |-> x] :
              x \in Format1((t - s) * 100, Max(t, 1))}

\* comparison.py:124-129: the message of detect_manipulation, as the text
\* before the number and the number printed, in tenths of a percent.
DetectMessages(manipulated, s, t) ==
    IF manipulated
    THEN {[text |-> "Manipulation detected (confidence: ", tenths |-> x] :
              x \in Format1((t - s) * 100, t)}
    ELSE {[text |-> "No manipulation detected (similarity: ", tenths |-> x] :
              x \in Format1(s * 100, Unit)}

(* ------------------------- difference renderer ------------------------ *)

\* Variant: np.clip is missing, astype(uint8) wraps.
DiffChannelNoClip(a, b) == (Abs(a - b) * AmplifyFactor) % 256

\* comparison.py:164-174 on one channel value: float32 difference,
\* np.abs, * 3, np.clip(.., 0, 255), astype(uint8).
DiffChannel(a, b) == Max(0, Min(255, Abs(a - b) * AmplifyFactor)) % 256

\* comparison.py:164-171 on the two resized RGB images.
DiffArray(r1, r2) ==
    [w |-> r1.w, h |-> r1.h,
     cols |-> [x \in DOMAIN r1.cols |->
                 [ch \in 1 .. 3 |-> DiffChannel(r1.cols[x][ch], r2.cols[x][ch])]]]

\* comparison.py:174: Image.fromarray of an (h, w, 3) uint8 array.
FromArray(arr) == Img("RGB", arr.w, arr.h, arr.cols, TRUE)

\* Variant: the handler re-raises, as the one of detect_manipulation does.
DiffOnExceptionReraise(e) == [kind |-> "raise", exc |-> e]

\* comparison.py:180-182: what the handler of generate_difference_image
\* hands to the caller for an exception e.
DiffOnException(e) == [kind |-> "return", value |-> [kind |-> "None"]]

\* comparison.py:94-96: what the handler of compare_images raises for e.
CompareOnException(e) == [kind |-> "raise", exc |-> "RuntimeError"]

\* comparison.py:135-137: detect_manipulation logs and re-raises.
DetectOnException(e) == [kind |-> "raise", exc |-> e]

(* ------------------------------- inputs ------------------------------- *)

MinSide == MIN_IMAGE_SIZE[1]

\* The values a caller may pass as an image argument: decoded images of
\* several modes, sizes and contents, images whose pixel data cannot be
\* decoded, and values that are not images.
InputImages ==
    { Solid("RGB", MinSide, MinSide, <<0, 0, 0>>),
      Solid("RGB", MinSide, MinSide, <<255, 255, 255>>),
      Solid("RGB", MaxSide, MinSide, <<100, 100, 100>>),
      Solid("RGB", MinSide, MaxSide, <<150, 150, 150>>),
      Img("RGB", MinSide, MinSide,
          Scanline(MinSide, <<0, 0, 0>>, <<255, 255, 255>>, WinSize, 3), TRUE),
      Img("RGB", MinSide, MinSide,
          Scanline(MinSide, <<255, 255, 255>>, <<0, 0, 0>>, WinSize, 3), TRUE),
      Img("RGB", MaxSide, MaxSide,
          Scanline(MaxSide, <<10, 200, 30>>, <<250, 40, 90>>, 4, 2), TRUE),
      Solid("RGB", MinSide - 1, MaxSide, <<255, 255, 255>>),
      Solid("RGB", MaxSide, MinSide - 1, <<0, 0, 0>>),
      Solid("L", MinSide, MinSide, <<128>>),
      Solid("RGBA", MinSide, MinSide, <<255, 0, 0, 128>>),
      Img("L", MinSide, MinSide, Scanline(MinSide, <<7>>, <<7>>, 1, 0), FALSE),
      Img("RGB", MinSide, MinSide, Scanline(MinSide, <<1, 2, 3>>, <<1, 2, 3>>, 1, 0), FALSE),
      Img("RGB", 2, 3, Scanline(2, <<10, 20, 30>>, <<200, 100, 0>>, 2, 1), TRUE),
      Solid("RGB", 3, 2, <<60, 120, 250>>) }

NotAnImage == { [kind |-> "None"], [kind |-> "str"] }

Args == InputImages \cup NotAnImage

\* Thresholds a caller may pass: the default, the ends and the middle of
\* [0, 1], and values on either side of it.
Thresholds ==
    { DEFAULT_MANIPULATION_THRESHOLD, 0, Unit \div 2, Unit, -1, Unit + Unit \div 2 }

\* Floats the library call may hand back besides the value computed here.
RawFloats == { Nan, PosInf, NegInf, Fin(-(Unit \div 2)), Fin(Unit + 1), Fin(DEFAULT_MANIPULATION_THRESHOLD) }

(* ------------------------------- state -------------------------------- *)

VARIABLES
    pc,               \* the statement about to run
    entry,            \* the function the caller called
    arg1, arg2,       \* the image arguments as passed
    threshold,        \* the threshold argument
    img1, img2,       \* the locals img1, img2 (rebound by convert)
    target_size,
    img1_resized, img2_resized,
    array1_gray, array2_gray,
    ssim_value,       \* the float the SSIM call handed back (line 85)
    similarity_score,
    diff_array,
    exc,              \* the exception a try block is handling
    done,             \* the steps of the comparison work executed so far
    cmpOut,           \* how compare_images ended
    detOut,           \* how detect_manipulation ended
    diffOut,          \* how generate_difference_image ended
    confidence,       \* the local confidence of detect_manipulation, a fraction
    \* analyze_image_properties
    ppc,              \* the statement about to run
    pimg,             \* the argument img
    properties,       \* the local dict properties
    propsOut,         \* what the function returned
    \* POST /detect (main.py)
    hpc,              \* the statement about to run
    request,          \* the request received
    original_data, suspect_data,
    original_type, suspect_type,
    detectCalled,     \* detect_image_manipulation has been called
    response,         \* the response sent
    \* download_media (utils.py)
    dpc,              \* the statement about to run
    url,              \* the argument url
    head_response,    \* the response to the HEAD request
    getIssued,        \* requests.get has been called
    received,         \* the chunks iter_content has yielded so far
    downloaded_size,
    content,          \* the BytesIO buffer, as the chunks written to it
    dlOut             \* how download_media ended

vars == <<pc, entry, arg1, arg2, threshold, img1, img2, target_size,
          img1_resized, img2_resized, array1_gray, array2_gray,
          ssim_value, similarity_score, diff_array, exc, done, cmpOut, detOut,
          diffOut, confidence,
          ppc, pimg, properties, propsOut,
          hpc, request, original_data, suspect_data, original_type, suspect_type,
          detectCalled, response,
          dpc, url, head_response, getIssued, received, downloaded_size, content,
          dlOut>>

Unset == [kind |-> "unset"]
Pending == [kind |-> "pending"]
Return(v) == [kind |-> "return", value |-> v]
Raise(e) == [kind |-> "raise", exc |-> e]

cmpLocals == <<target_size, img1_resized, img2_resized, array1_gray, array2_gray,
               ssim_value, similarity_score>>
outs == <<cmpOut, detOut, diffOut>>
args == <<entry, arg1, arg2, threshold>>

propsVars == <<ppc, pimg, properties, propsOut>>
httpVars == <<hpc, request, original_data, suspect_data, original_type, suspect_type,
              detectCalled, response>>
downloadVars == <<dpc, url, head_response, getIssued, received, downloaded_size,
                  content, dlOut>>

\* The state of the comparison engine (compare, detect, difference).
engineVars == <<pc, entry, arg1, arg2, threshold, img1, img2, target_size,
                img1_resized, img2_resized, array1_gray, array2_gray,
                ssim_value, similarity_score, diff_array, exc, done, cmpOut,
                detOut, diffOut, confidence>>

\* The state outside the comparison engine.
outside == <<propsVars, httpVars, downloadVars>>

\* No call of analyze_image_properties yet.
PropsInit ==
    /\ ppc = "idle" /\ pimg = Unset /\ properties = Unset /\ propsOut = Pending

\* No request yet.
HttpInit ==
    /\ hpc = "idle" /\ request = Unset
    /\ original_data = Unset /\ suspect_data = Unset
    /\ original_type = Unset /\ suspect_type = Unset
    /\ detectCalled = FALSE
    /\ response = Pending

\* No call of download_media yet.
DownloadInit ==
    /\ dpc = "idle" /\ url = Unset /\ head_response = Unset
    /\ getIssued = FALSE /\ received = <<>>
    /\ downloaded_size = 0 /\ content = <<>>
    /\ dlOut = Pending

Init ==
    /\ pc = "idle"
    /\ entry = "none"
    /\ arg1 = Unset /\ arg2 = Unset /\ threshold = 0
    /\ img1 = Unset /\ img2 = Unset
    /\ target_size = Unset
    /\ img1_resized = Unset /\ img2_resized = Unset
    /\ array1_gray = Unset /\ array2_gray = Unset
    /\ ssim_value = Unset
    /\ similarity_score = Unset
    /\ diff_array = Unset
    /\ exc = "none"
    /\ done = {}
    /\ cmpOut = Pending /\ detOut = Pending /\ diffOut = Pending
    /\ confidence = Unset
    /\ PropsInit /\ HttpInit /\ DownloadInit

\* Where control goes when compare_images ends: back into its caller.
AfterCompare == IF entry = "detect" THEN "det_resume" ELSE "done"

(* --------------------------- compare_images --------------------------- *)

\* Control enters function e of the engine with its arguments bound.
Enter(e, a, b, t, first) ==
    /\ pc = "idle"
    /\ entry' = e /\ arg1' = a /\ arg2' = b /\ threshold' = t
    /\ img1' = a /\ img2' = b
    /\ pc' = first
    /\ UNCHANGED <<cmpLocals, diff_array, exc, done, outs, confidence>>

Call(e, a, b, t, first) == Enter(e, a, b, t, first) /\ UNCHANGED outside

\* A caller calls compare_images(img1, img2, threshold).
CallCompare == \E a \in Args, b \in Args, t \in Thresholds : Call("compare", a, b, t, "cmp_images")

\* A caller calls detect_manipulation; line 119-120 call compare_images.
CallDetect == \E a \in Args, b \in Args, t \in Thresholds : Call("detect", a, b, t, "cmp_images")

\* A caller calls generate_difference_image(img1, img2).
CallDifference ==
    \E a \in Args, b \in Args : Call("difference", a, b, DEFAULT_MANIPULATION_THRESHOLD, "diff_convert")

\* Lines 40-41, outside the try block.
CmpCheckImages ==
    /\ pc = "cmp_images"
    /\ IF NotImages(img1, img2)
       THEN cmpOut' = Raise("ValueError") /\ pc' = AfterCompare
       ELSE cmpOut' = cmpOut /\ pc' = "cmp_threshold"
    /\ UNCHANGED <<args, img1, img2, cmpLocals, diff_array, exc, done, detOut, diffOut>>
    /\ UNCHANGED <<confidence, outside>>

\* Lines 43-44, outside the try block.
CmpCheckThreshold ==
    /\ pc = "cmp_threshold"
    /\ IF ThresholdInvalid(threshold)
       THEN cmpOut' = Raise("ValueError") /\ pc' = AfterCompare
       ELSE cmpOut' = cmpOut /\ pc' = "cmp_convert"
    /\ UNCHANGED <<args, img1, img2, cmpLocals, diff_array, exc, done, detOut, diffOut>>
    /\ UNCHANGED <<confidence, outside>>

\* Lines 46-51: mode conversion, inside the try block.
CmpConvert ==
    /\ pc = "cmp_convert"
    /\ done' = done \cup {"convert"}
    /\ IF ConvertRaises(img1)
       THEN exc' = "OSError" /\ pc' = "cmp_except" /\ UNCHANGED <<img1, img2>>
       ELSE IF ConvertRaises(img2)
       THEN exc' = "OSError" /\ pc' = "cmp_except" /\ img1' = ToRGB(img1) /\ img2' = img2
       ELSE exc' = exc /\ pc' = "cmp_size" /\ img1' = ToRGB(img1) /\ img2' = ToRGB(img2)
    /\ UNCHANGED <<args, cmpLocals, diff_array, outs>>
    /\ UNCHANGED <<confidence, outside>>

\* Lines 53-57: the per-image size gate; its ValueError is raised inside
\* the try block.
CmpCheckSize ==
    /\ pc = "cmp_size"
    /\ done' = done \cup {"size_check"}
    /\ IF TooSmall(img1.w, img1.h) \/ TooSmall(img2.w, img2.h)
       THEN exc' = "ValueError" /\ pc' = "cmp_except"
       ELSE exc' = exc /\ pc' = "cmp_target"
    /\ UNCHANGED <<args, img1, img2, cmpLocals, diff_array, outs>>
    /\ UNCHANGED <<confidence, outside>>

\* Lines 59-64: the target size and its gate.
CmpTarget ==
    /\ pc = "cmp_target"
    /\ target_size' = TargetSize(img1, img2)
    /\ IF TooSmall(target_size'[1], target_size'[2])
       THEN exc' = "ValueError" /\ pc' = "cmp_except"
       ELSE exc' = exc /\ pc' = "cmp_resize"
    /\ UNCHANGED <<args, img1, img2, img1_resized, img2_resized, array1_gray,
                   array2_gray, ssim_value, similarity_score, diff_array, done, outs>>
    /\ UNCHANGED <<confidence, outside>>

\* Lines 66-67: both images resized to the target size.
CmpResize ==
    /\ pc = "cmp_resize"
    /\ done' = done \cup {"resize"}
    /\ IF ResizeRaises(img1) \/ ResizeRaises(img2)
       THEN exc' = "OSError" /\ pc' = "cmp_except"
            /\ UNCHANGED <<img1_resized, img2_resized>>
       ELSE exc' = exc /\ pc' = "cmp_gray"
            /\ img1_resized' \in ResizeResults(img1, target_size)
            /\ img2_resized' \in ResizeResults(img2, target_size)
    /\ UNCHANGED <<args, img1, img2, target_size, array1_gray, array2_gray,
                   ssim_value, similarity_score, diff_array, outs>>
    /\ UNCHANGED <<confidence, outside>>

\* Lines 69-82: numpy arrays and their grayscale projection.
CmpGray ==
    /\ pc = "cmp_gray"
    /\ array1_gray' = ToGray(img1_resized)
    /\ array2_gray' = ToGray(img2_resized)
    /\ pc' = "cmp_ssim"
    /\ UNCHANGED <<args, img1, img2, target_size, img1_resized, img2_resized,
                   ssim_value, similarity_score, diff_array, exc, done, outs>>
    /\ UNCHANGED <<confidence, outside>>

\* The library rejects images smaller than its window with ValueError.
SsimRaises(gray1, gray2) == gray1.w < WinSize \/ gray1.h < WinSize

SsimStep(results) ==
    /\ pc = "cmp_ssim"
    /\ done' = done \cup {"ssim"}
    /\ IF SsimRaises(array1_gray, array2_gray)
       THEN exc' = "ValueError" /\ pc' = "cmp_except"
            /\ UNCHANGED <<ssim_value, similarity_score>>
       ELSE exc' = exc /\ pc' = "cmp_clamp"
            /\ similarity_score' \in results /\ ssim_value' = similarity_score'
    /\ UNCHANGED <<args, img1, img2, target_size, img1_resized, img2_resized,
                   array1_gray, array2_gray, diff_array, outs>>
    /\ UNCHANGED <<confidence, outside>>

\* Lines 84-85: the SSIM of the two grayscale arrays.
CmpSsim == SsimStep({Ssim(array1_gray, array2_gray)})

\* Lines 84-85 with the library call as a black box: the float it hands
\* back is the computed one or any other float.
CmpSsimAnyFloat == SsimStep({Ssim(array1_gray, array2_gray)} \cup RawFloats)

\* Lines 87-92: clamp and return.
CmpClamp ==
    /\ pc = "cmp_clamp"
    /\ similarity_score' = Clamp(similarity_score)
    /\ cmpOut' = Return(similarity_score')
    /\ pc' = AfterCompare
    /\ UNCHANGED <<args, img1, img2, target_size, img1_resized, img2_resized,
                   array1_gray, array2_gray, ssim_value, diff_array, exc, done,
                   detOut, diffOut>>
    /\ UNCHANGED <<confidence, outside>>

\* Lines 94-96: except Exception as e: raise RuntimeError(...).
CmpExcept ==
    /\ pc = "cmp_except"
    /\ cmpOut' = CompareOnException(exc)
    /\ exc' = "none"
    /\ pc' = AfterCompare
    /\ UNCHANGED <<args, img1, img2, cmpLocals, diff_array, done, detOut, diffOut>>
    /\ UNCHANGED <<confidence, outside>>

(* ------------------------- detect_manipulation ------------------------ *)

\* Lines 122-137: compare_images returned a score.
DetDecide ==
    /\ pc = "det_resume"
    /\ cmpOut.kind = "return"
    /\ LET score == cmpOut.value
           is_manipulated == IsManipulated(score, threshold)
       IN  IF is_manipulated /\ threshold = 0
           THEN \* line 125 divides by the threshold; the handler re-raises
                /\ detOut' = DetectOnException("ZeroDivisionError")
                /\ confidence' = confidence
           ELSE /\ confidence' = Confidence(is_manipulated, score.v, threshold)
                /\ \E message \in DetectMessages(is_manipulated, score.v, threshold) :
                      detOut' = Return([manipulated |-> is_manipulated, score |-> score,
                                        message |-> message])
    /\ pc' = "done"
    /\ UNCHANGED <<args, img1, img2, cmpLocals, diff_array, exc, done, cmpOut, diffOut>>
    /\ UNCHANGED outside

\* Lines 135-137: compare_images raised; log and re-raise.
DetReraise ==
    /\ pc = "det_resume"
    /\ cmpOut.kind = "raise"
    /\ detOut' = DetectOnException(cmpOut.exc)
    /\ pc' = "done"
    /\ UNCHANGED <<args, img1, img2, cmpLocals, diff_array, exc, done, cmpOut, diffOut>>
    /\ UNCHANGED <<confidence, outside>>

(* ---------------------- generate_difference_image --------------------- *)

\* Lines 151-156: mode conversion; reading .mode of a value that is not an
\* image raises AttributeError.
DiffConvert ==
    /\ pc = "diff_convert"
    /\ IF ~IsImage(img1)
       THEN exc' = "AttributeError" /\ pc' = "diff_except" /\ UNCHANGED <<img1, img2>>
       ELSE IF ConvertRaises(img1)
       THEN exc' = "OSError" /\ pc' = "diff_except" /\ UNCHANGED <<img1, img2>>
       ELSE IF ~IsImage(img2)
       THEN exc' = "AttributeError" /\ pc' = "diff_except"
            /\ img1' = ToRGB(img1) /\ img2' = img2
       ELSE IF ConvertRaises(img2)
       THEN exc' = "OSError" /\ pc' = "diff_except"
            /\ img1' = ToRGB(img1) /\ img2' = img2
       ELSE exc' = exc /\ pc' = "diff_resize"
            /\ img1' = ToRGB(img1) /\ img2' = ToRGB(img2)
    /\ UNCHANGED <<args, cmpLocals, diff_array, done, outs>>
    /\ UNCHANGED <<confidence, outside>>

\* Lines 158-161: target size and resize; no size gate here.
DiffResize ==
    /\ pc = "diff_resize"
    /\ target_size' = TargetSize(img1, img2)
    /\ IF ResizeRaises(img1) \/ ResizeRaises(img2)
       THEN exc' = "OSError" /\ pc' = "diff_except"
            /\ UNCHANGED <<img1_resized, img2_resized>>
       ELSE exc' = exc /\ pc' = "diff_compute"
            /\ img1_resized' \in ResizeResults(img1, target_size')
            /\ img2_resized' \in ResizeResults(img2, target_size')
    /\ UNCHANGED <<args, img1, img2, array1_gray, array2_gray, ssim_value,
                   similarity_score, diff_array, done, outs>>
    /\ UNCHANGED <<confidence, outside>>

\* Lines 163-171: amplified, clipped absolute difference.
DiffCompute ==
    /\ pc = "diff_compute"
    /\ diff_array' = DiffArray(img1_resized, img2_resized)
    /\ pc' = "diff_package"
    /\ UNCHANGED <<args, img1, img2, cmpLocals, exc, done, outs>>
    /\ UNCHANGED <<confidence, outside>>

\* Lines 173-178: back to a PIL image, returned.
DiffPackage ==
    /\ pc = "diff_package"
    /\ diffOut' = Return(FromArray(diff_array))
    /\ pc' = "done"
    /\ UNCHANGED <<args, img1, img2, cmpLocals, diff_array, exc, done, cmpOut, detOut>>
    /\ UNCHANGED <<confidence, outside>>

\* Lines 180-182: except Exception: return None.
DiffExcept ==
    /\ pc = "diff_except"
    /\ diffOut' = DiffOnException(exc)
    /\ exc' = "none"
    /\ pc' = "done"
    /\ UNCHANGED <<args, img1, img2, cmpLocals, diff_array, done, cmpOut, detOut>>
    /\ UNCHANGED <<confidence, outside>>

(* --------------------------- specifications --------------------------- *)

Common ==
    \/ CallCompare \/ CallDetect \/ CallDifference
    \/ CmpCheckImages \/ CmpCheckThreshold \/ CmpConvert \/ CmpCheckSize
    \/ CmpTarget \/ CmpResize \/ CmpGray \/ CmpClamp \/ CmpExcept
    \/ DetDecide \/ DetReraise
    \/ DiffConvert \/ DiffResize \/ DiffCompute \/ DiffPackage \/ DiffExcept

Next == Common \/ CmpSsim

Spec == Init /\ [][Next]_vars

\* The same program with the library's SSIM call as a black box.
NextAnyFloat == Common \/ CmpSsimAnyFloat

SpecAnyFloat == Init /\ [][NextAnyFloat]_vars

(* ---------------------- analyze_image_properties ---------------------- *)

\* An image as a decoder hands it over: with its format tag (None for an
\* image built in memory) and EXIF data that is empty, present or corrupt.
WithMeta(img, format, exif) == [format |-> format, exif |-> exif] @@ img

PropsArgs ==
    { WithMeta(a, f, e) : a \in InputImages,
                          f \in {"None", "PNG", "JPEG"},
                          e \in {"empty", "present", "corrupt"} }
    \cup NotAnImage

\* Every channel value of the pixel buffer, row by row (one row stands for
\* all: the rows are identical).
ChannelValues(img) ==
    LET b == Bands(img.mode)
    IN  [i \in 1 .. img.w * b |-> img.cols[(i - 1) \div b][((i - 1) % b) + 1]]

\* Integer square root.
ISqrt(n) == CHOOSE r \in 0 .. 255 * Root : r * r <= n /\ n < (r + 1) * (r + 1)

\* comparison.py:206-211: np.mean, np.std (in 1/Root), np.min, np.max.
Stats(img) ==
    LET v == ChannelValues(img)
        n == Len(v)
        mean == (Root * SumSeq(v, 1)) \div n
        dev == [i \in 1 .. n |-> ((Root * v[i] - mean) * (Root * v[i] - mean)) \div n]
    IN  [mean_intensity |-> mean,
         std_intensity |-> ISqrt(SumSeq(dev, 1)),
         min_intensity |-> CHOOSE x \in {v[i] : i \in 1 .. n} : \A i \in 1 .. n : x <= v[i],
         max_intensity |-> CHOOSE x \in {v[i] : i \in 1 .. n} : \A i \in 1 .. n : x >= v[i]]

\* Variant: only RGB images get statistics.
StatsModeRgbOnly(mode) == mode = "RGB"

\* comparison.py:204: img.mode in ['RGB', 'L']
StatsMode(mode) == mode \in {"RGB", "L"}

\* Variant: the handler adds the error to what was computed so far.
PropsOnExceptionMixed(e, props) ==
    IF props = Unset THEN [error |-> e] ELSE [error |-> e] @@ props

\* comparison.py:215-217: the handler returns {'error': str(e)}.
PropsOnException(e, props) == [error |-> e]

\* A caller calls analyze_image_properties(img).
CallProperties ==
    /\ ppc = "idle"
    /\ pimg' \in PropsArgs
    /\ ppc' = "props_header"
    /\ UNCHANGED <<properties, propsOut, engineVars, httpVars, downloadVars>>

\* Lines 195-201: the dict of dimensions, mode, format and has_exif.
\* Reading .size of a value that is not an image raises AttributeError,
\* getexif() raises on corrupt EXIF data.
PropsHeader ==
    /\ ppc = "props_header"
    /\ IF ~IsImage(pimg)
       THEN exc' = "AttributeError" /\ ppc' = "props_except" /\ UNCHANGED properties
       ELSE IF pimg.exif = "corrupt"
       THEN exc' = "SyntaxError" /\ ppc' = "props_except" /\ UNCHANGED properties
       ELSE /\ properties' = [dimensions |-> <<pimg.w, pimg.h>>,
                              mode |-> pimg.mode,
                              format |-> pimg.format,
                              has_exif |-> (pimg.exif = "present")]
            /\ exc' = exc /\ ppc' = "props_stats"
    /\ UNCHANGED <<pimg, propsOut, httpVars, downloadVars>>
    /\ UNCHANGED <<pc, entry, arg1, arg2, threshold, img1, img2, target_size,
                   img1_resized, img2_resized, array1_gray, array2_gray,
                   ssim_value, similarity_score, diff_array, done, cmpOut,
                   detOut, diffOut, confidence>>

\* Lines 203-211: the statistics, for RGB and L images; np.array(img) loads
\* the pixel data.
PropsStats ==
    /\ ppc = "props_stats"
    /\ IF StatsMode(pimg.mode)
       THEN IF ~pimg.ok
            THEN exc' = "OSError" /\ ppc' = "props_except" /\ UNCHANGED properties
            ELSE /\ properties' = Stats(pimg) @@ properties
                 /\ exc' = exc /\ ppc' = "props_return"
       ELSE exc' = exc /\ ppc' = "props_return" /\ UNCHANGED properties
    /\ UNCHANGED <<pimg, propsOut, httpVars, downloadVars>>
    /\ UNCHANGED <<pc, entry, arg1, arg2, threshold, img1, img2, target_size,
                   img1_resized, img2_resized, array1_gray, array2_gray,
                   ssim_value, similarity_score, diff_array, done, cmpOut,
                   detOut, diffOut, confidence>>

\* Line 213: return properties.
PropsReturn ==
    /\ ppc = "props_return"
    /\ propsOut' = Return(properties)
    /\ ppc' = "done"
    /\ UNCHANGED <<pimg, properties, engineVars, httpVars, downloadVars>>

\* Lines 215-217: except Exception as e: return {'error': str(e)}.
PropsExcept ==
    /\ ppc = "props_except"
    /\ propsOut' = Return(PropsOnException(exc, properties))
    /\ exc' = "none"
    /\ ppc' = "done"
    /\ UNCHANGED <<pimg, properties, httpVars, downloadVars>>
    /\ UNCHANGED <<pc, entry, arg1, arg2, threshold, img1, img2, target_size,
                   img1_resized, img2_resized, array1_gray, array2_gray,
                   ssim_value, similarity_score, diff_array, done, cmpOut,
                   detOut, diffOut, confidence>>

NextProps == CallProperties \/ PropsHeader \/ PropsStats \/ PropsReturn \/ PropsExcept

SpecProps == Init /\ [][NextProps]_vars

(* ------------------------------ POST /detect -------------------------- *)

\* JSON values. A string is the sequence of the pieces it is made of, so
\* that '' is the empty sequence and a prefix is a first piece.
Str(s) == [t |-> "str", s |-> s]
JsonInt == [t |-> "int"]
JsonNull == [t |-> "null"]
Malformed == [t |-> "malformed"]

UrlFields == {"url_original", "url_suspect"}

\* The values a client may put in a URL field.
UrlValues ==
    { Str(<<"https://", "host/a.png">>), Str(<<" ", "https://", "host/a.png">>),
      Str(<<"ftp://", "host/a.png">>), Str(<<" ">>), Str(<<>>), JsonInt, JsonNull }

\* The bodies a client may send: text that is not JSON, null, a number, lists
\* and objects with any of the two fields.
Bodies ==
    { Malformed, JsonNull, JsonInt, [t |-> "list", items |-> <<>>],
      [t |-> "list", items |-> <<"url_original", "url_suspect">>] }
    \cup { [t |-> "dict", fields |-> f] :
             f \in UNION { [S -> UrlValues] : S \in SUBSET UrlFields } }

Requests ==
    { [is_json |-> FALSE, body |-> Malformed] }
    \cup { [is_json |-> TRUE, body |-> b] : b \in Bodies }

\* Line 54, 'not data'.
Falsy(data) ==
    \/ data.t = "null"
    \/ data.t = "list" /\ data.items = <<>>
    \/ data.t = "dict" /\ DOMAIN data.fields = {}

\* Line 54, 'key in data'; a number has no membership test.
InRaises(data) == data.t = "int"
In(key, data) ==
    IF data.t = "dict" THEN key \in DOMAIN data.fields
    ELSE \E i \in DOMAIN data.items : data.items[i] = key

\* Lines 59-60, data.get(key); only a dict has get.
GetRaises(data) == data.t # "dict"

\* Line 63, isinstance(value, str).
IsStr(value) == value.t = "str"

\* Line 69, str.strip().
RECURSIVE Strip(_)
Strip(s) ==
    IF s = <<>> THEN s
    ELSE IF Head(s) = " " THEN Strip(Tail(s))
    ELSE IF s[Len(s)] = " " THEN Strip(SubSeq(s, 1, Len(s) - 1))
    ELSE s

\* Downloaded bytes: none, an encoded image, a video, or anything else.
Payloads ==
    { [bytes |-> "empty"], [bytes |-> "video"], [bytes |-> "other"] }
    \cup { [bytes |-> "image", img |-> i] : i \in InputImages }

\* utils.py lines 51-55: the URL checks of download_media.
UrlInvalid(u) == ~IsStr(u) \/ u.s = <<>> \/ Head(u.s) \notin {"http://", "https://"}

\* What a call of download_media(url) can do: raise ValueError for a bad
\* URL or an oversized file, RequestException for a failed request,
\* RuntimeError for an unsupported content type, or return the bytes.
DownloadOutcomes(u) ==
    IF UrlInvalid(u) THEN { Raise("ValueError") }
    ELSE { Raise("ValueError"), Raise("RequestException"), Raise("RuntimeError") }
         \cup { Return(p) : p \in Payloads }

\* main.py lines 80-87: the download errors answered with 400.
DownloadHandledAll(e) == TRUE

DownloadHandled(e) == e \in {"RequestException", "ValueError"}

\* utils.py lines 102-121 and 124-161.
is_image(data) == data.bytes = "image"
is_video(data) == data.bytes = "video"

\* utils.py lines 214-235.
validate_media_data(data) ==
    IF data.bytes = "empty" THEN Raise("ValueError")
    ELSE IF is_image(data) THEN Return("image")
    ELSE IF is_video(data) THEN Return("video")
    ELSE Raise("ValueError")

\* Lines 113-114, Image.open(BytesIO(data)).
OpenRaises(data) == ~is_image(data)

\* The clamp of compare_images hands back the library's own numpy scalar
\* when it lies strictly between 0 and 1, and a Python float otherwise;
\* comparing a numpy scalar gives a numpy bool.
IsNumpyScalar(raw) == FloatLt(Fin(0), raw) /\ FloatLt(raw, Fin(Unit))

\* Line 131, jsonify(response): the JSON provider has no encoding for a
\* numpy bool and raises TypeError.
JsonifyRaises(numpyBool) == numpyBool

\* Lines 121-128.
ResponseBody(result, type, a, b) ==
    [manipulated |-> result.manipulated,
     score |-> result.score.v,
     message |-> result.message,
     media_type |-> type,
     original_dimensions |-> <<a.w, a.h>>,
     suspect_dimensions |-> <<b.w, b.h>>]

Respond(status, body) ==
    /\ response' = [status |-> status, body |-> body]
    /\ hpc' = "done"

Error(text) == [error |-> text]

\* The part of the request state a handler step leaves alone.
httpData == <<original_data, suspect_data, original_type, suspect_type>>

\* A client posts a request to /detect.
HttpReceive ==
    /\ hpc = "idle" /\ pc = "idle"
    /\ request' \in Requests
    /\ hpc' = "is_json"
    /\ UNCHANGED <<httpData, detectCalled, response>>
    /\ UNCHANGED <<engineVars, propsVars, downloadVars>>

\* Lines 46-49.
HttpCheckJson ==
    /\ hpc = "is_json"
    /\ IF ~request.is_json
       THEN Respond(400, Error("Content-Type must be application/json"))
       ELSE hpc' = "get_json" /\ UNCHANGED response
    /\ UNCHANGED <<request, httpData, detectCalled>>
    /\ UNCHANGED <<engineVars, propsVars, downloadVars>>

\* Line 51: get_json() raises on a body that is not JSON, and line 139
\* answers any exception with 500.
HttpGetJson ==
    /\ hpc = "get_json"
    /\ IF request.body = Malformed
       THEN Respond(500, Error("Internal server error"))
       ELSE hpc' = "fields" /\ UNCHANGED response
    /\ UNCHANGED <<request, httpData, detectCalled>>
    /\ UNCHANGED <<engineVars, propsVars, downloadVars>>

\* Lines 54-57.
HttpCheckFields ==
    /\ hpc = "fields"
    /\ LET data == request.body
       IN  IF Falsy(data)
           THEN Respond(400, Error("Both 'url_original' and 'url_suspect' are required"))
           ELSE IF InRaises(data)
           THEN Respond(500, Error("Internal server error"))
           ELSE IF ~In("url_original", data) \/ ~In("url_suspect", data)
           THEN Respond(400, Error("Both 'url_original' and 'url_suspect' are required"))
           ELSE hpc' = "url_types" /\ UNCHANGED response
    /\ UNCHANGED <<request, httpData, detectCalled>>
    /\ UNCHANGED <<engineVars, propsVars, downloadVars>>

\* Lines 59-66.
HttpCheckUrlTypes ==
    /\ hpc = "url_types"
    /\ LET data == request.body
       IN  IF GetRaises(data)
           THEN Respond(500, Error("Internal server error"))
           ELSE IF ~IsStr(data.fields.url_original) \/ ~IsStr(data.fields.url_suspect)
           THEN Respond(400, Error("URLs must be strings"))
           ELSE hpc' = "url_empty" /\ UNCHANGED response
    /\ UNCHANGED <<request, httpData, detectCalled>>
    /\ UNCHANGED <<engineVars, propsVars, downloadVars>>

\* Lines 69-72.
HttpCheckUrlEmpty ==
    /\ hpc = "url_empty"
    /\ LET data == request.body
       IN  IF Strip(data.fields.url_original.s) = <<>> \/ Strip(data.fields.url_suspect.s) = <<>>
           THEN Respond(400, Error("URLs cannot be empty"))
           ELSE hpc' = "download_original" /\ UNCHANGED response
    /\ UNCHANGED <<request, httpData, detectCalled>>
    /\ UNCHANGED <<engineVars, propsVars, downloadVars>>

\* Lines 80-87, and line 139 for every other exception.
OnDownloadError(e) ==
    IF e = "RequestException" /\ DownloadHandled(e)
    THEN Respond(400, Error("Failed to download media"))
    ELSE IF DownloadHandled(e)
    THEN Respond(400, Error("Invalid media"))
    ELSE Respond(500, Error("Internal server error"))

\* Line 78.
HttpDownloadOriginal ==
    /\ hpc = "download_original"
    /\ \E outcome \in DownloadOutcomes(request.body.fields.url_original) :
          /\ original_data' = outcome
          /\ IF outcome.kind = "raise"
             THEN OnDownloadError(outcome.exc)
             ELSE hpc' = "download_suspect" /\ UNCHANGED response
    /\ UNCHANGED <<request, suspect_data, original_type, suspect_type, detectCalled>>
    /\ UNCHANGED <<engineVars, propsVars, downloadVars>>

\* Line 79.
HttpDownloadSuspect ==
    /\ hpc = "download_suspect"
    /\ \E outcome \in DownloadOutcomes(request.body.fields.url_suspect) :
          /\ suspect_data' = outcome
          /\ IF outcome.kind = "raise"
             THEN OnDownloadError(outcome.exc)
             ELSE hpc' = "validate_original" /\ UNCHANGED response
    /\ UNCHANGED <<request, original_data, original_type, suspect_type, detectCalled>>
    /\ UNCHANGED <<engineVars, propsVars, downloadVars>>

\* Lines 91 and 93-96.
HttpValidateOriginal ==
    /\ hpc = "validate_original"
    /\ original_type' = validate_media_data(original_data.value)
    /\ IF original_type'.kind = "raise"
       THEN Respond(400, Error("Unsupported media type"))
       ELSE hpc' = "validate_suspect" /\ UNCHANGED response
    /\ UNCHANGED <<request, original_data, suspect_data, suspect_type, detectCalled>>
    /\ UNCHANGED <<engineVars, propsVars, downloadVars>>

\* Lines 92 and 93-96.
HttpValidateSuspect ==
    /\ hpc = "validate_suspect"
    /\ suspect_type' = validate_media_data(suspect_data.value)
    /\ IF suspect_type'.kind = "raise"
       THEN Respond(400, Error("Unsupported media type"))
       ELSE hpc' = "same_type" /\ UNCHANGED response
    /\ UNCHANGED <<request, original_data, suspect_data, original_type, detectCalled>>
    /\ UNCHANGED <<engineVars, propsVars, downloadVars>>

\* Lines 99-102.
HttpCheckSameType ==
    /\ hpc = "same_type"
    /\ IF original_type # suspect_type
       THEN Respond(400, Error("Both files must be the same media type (image or video)"))
       ELSE hpc' = "image_only" /\ UNCHANGED response
    /\ UNCHANGED <<request, httpData, detectCalled>>
    /\ UNCHANGED <<engineVars, propsVars, downloadVars>>

\* Lines 105-108.
HttpCheckImageOnly ==
    /\ hpc = "image_only"
    /\ IF original_type.value # "image"
       THEN Respond(400, Error("Video comparison not yet implemented. Please use images."))
       ELSE hpc' = "open" /\ UNCHANGED response
    /\ UNCHANGED <<request, httpData, detectCalled>>
    /\ UNCHANGED <<engineVars, propsVars, downloadVars>>

\* Lines 113-119: both payloads opened and detect_manipulation called with
\* its default threshold; lines 133-137 answer a failed open with 500.
HttpOpenAndDetect ==
    /\ hpc = "open"
    /\ IF OpenRaises(original_data.value) \/ OpenRaises(suspect_data.value)
       THEN /\ Respond(500, Error("Image processing failed"))
            /\ UNCHANGED <<detectCalled, engineVars>>
       ELSE /\ Enter("detect", original_data.value.img, suspect_data.value.img,
                     DEFAULT_MANIPULATION_THRESHOLD, "cmp_images")
            /\ detectCalled' = TRUE
            /\ hpc' = "detect" /\ UNCHANGED response
    /\ UNCHANGED <<request, httpData>>
    /\ UNCHANGED <<propsVars, downloadVars>>

\* Lines 117-137: detect_manipulation ended; the response is built and
\* serialised, and any exception is answered with 500.
HttpRespond ==
    /\ hpc = "detect" /\ pc = "done"
    /\ IF detOut.kind = "raise"
       THEN Respond(500, Error("Image processing failed"))
       ELSE IF JsonifyRaises(IsNumpyScalar(ssim_value))
       THEN Respond(500, Error("Image processing failed"))
       ELSE Respond(200, ResponseBody(detOut.value, original_type.value,
                                      original_data.value.img, suspect_data.value.img))
    /\ UNCHANGED <<request, httpData, detectCalled>>
    /\ UNCHANGED <<engineVars, propsVars, downloadVars>>

\* The steps of detect_manipulation and compare_images.
EngineStep ==
    \/ CmpCheckImages \/ CmpCheckThreshold \/ CmpConvert \/ CmpCheckSize
    \/ CmpTarget \/ CmpResize \/ CmpGray \/ CmpSsim \/ CmpClamp \/ CmpExcept
    \/ DetDecide \/ DetReraise

NextHttp ==
    \/ HttpReceive \/ HttpCheckJson \/ HttpGetJson \/ HttpCheckFields
    \/ HttpCheckUrlTypes \/ HttpCheckUrlEmpty
    \/ HttpDownloadOriginal \/ HttpDownloadSuspect
    \/ HttpValidateOriginal \/ HttpValidateSuspect
    \/ HttpCheckSameType \/ HttpCheckImageOnly
    \/ HttpOpenAndDetect \/ HttpRespond
    \/ EngineStep

SpecHttp == Init /\ [][NextHttp]_vars

(* ---------------------------- download_media -------------------------- *)

\* utils.py line 33.
MAX_FILE_SIZE == 50 * 1024 * 1024

\* utils.py lines 18-27.
IMAGE_MIME_TYPES ==
    {"image/jpeg", "image/jpg", "image/png", "image/gif", "image/bmp", "image/webp", "image/tiff"}
VIDEO_MIME_TYPES ==
    {"video/mp4", "video/avi", "video/mov", "video/wmv", "video/flv", "video/webm", "video/mkv"}

\* The URLs a caller may pass, None among them.
Urls ==
    { Str(<<"https://", "host/a.png">>), Str(<<"http://", "host/a.png">>),
      Str(<<"ftp://", "host/a.png">>), Str(<<>>), JsonNull }

\* A content-length header: absent, or its text, a number or not.
NoHeader == [present |-> FALSE]
Digits(n) == [present |-> TRUE, text |-> "digits", n |-> n]

ContentLengths ==
    { NoHeader, [present |-> TRUE, text |-> "empty"],
      [present |-> TRUE, text |-> "other"], Digits(0), Digits(1), Digits(MAX_FILE_SIZE),
      Digits(MAX_FILE_SIZE + 1) }

\* A content-type header, as the pieces of its text; <<>> is no header.
ContentTypes ==
    { <<>>, <<"image/png">>, <<"IMAGE/PNG">>, <<"image/jpeg", "; charset=binary">>,
      <<"video/mp4">>, <<"text/html">>, <<"application/octet-stream">>,
      <<"text/plain; name=", "image/png">> }

\* How a request can end: a response with a good status, a response with
\* an error status, no response in time, no connection.
RequestResults == {"ok", "HTTPError", "Timeout", "ConnectionError"}

HeadResponses ==
    { [status |-> "ok", content_type |-> ct, content_length |-> cl] :
        ct \in ContentTypes, cl \in ContentLengths }
    \cup { [status |-> s, content_type |-> <<>>, content_length |-> NoHeader] :
             s \in RequestResults \ {"ok"} }

\* The sizes of the chunks the response body may arrive in; iter_content
\* may yield empty chunks.
ChunkSizes == {0, 1, 8192, MAX_FILE_SIZE - 8192, MAX_FILE_SIZE}

\* Line 64, str.lower().
Lower(piece) == IF piece = "IMAGE/PNG" THEN "image/png" ELSE piece

\* Line 72: some supported MIME type occurs in the content type.
Supported(content_type) ==
    \E i \in DOMAIN content_type :
        Lower(content_type[i]) \in IMAGE_MIME_TYPES \cup VIDEO_MIME_TYPES

\* Line 68: truthiness of the header and int() of its text.
HeaderGiven(content_length) == content_length.present /\ content_length.text # "empty"
IntRaises(content_length) == content_length.text # "digits"

\* Lines 68 and 86: the size limit.
TooLargeNever(size) == FALSE

TooLarge(size) == size > MAX_FILE_SIZE

\* Lines 95-99: a timeout is raised again as RequestException, every other
\* RequestException as it is.
OnRequestException(e) == IF e = "Timeout" THEN Raise("RequestException") ELSE Raise(e)

dlLocals == <<head_response, getIssued, received, downloaded_size, content>>

\* A caller calls download_media(url).
CallDownload ==
    /\ dpc = "idle"
    /\ url' \in Urls
    /\ dpc' = "url_check"
    /\ UNCHANGED <<dlLocals, dlOut, engineVars, propsVars, httpVars>>

\* Lines 51-55, outside the try block.
DlCheckUrl ==
    /\ dpc = "url_check"
    /\ IF UrlInvalid(url)
       THEN dlOut' = Raise("ValueError") /\ dpc' = "done"
       ELSE dlOut' = dlOut /\ dpc' = "head"
    /\ UNCHANGED <<url, dlLocals, engineVars, propsVars, httpVars>>

\* Lines 61-65: the HEAD request and raise_for_status().
DlHead ==
    /\ dpc = "head"
    /\ head_response' \in HeadResponses
    /\ IF head_response'.status # "ok"
       THEN dlOut' = OnRequestException(head_response'.status) /\ dpc' = "done"
       ELSE dlOut' = dlOut /\ dpc' = "size_check"
    /\ UNCHANGED <<url, getIssued, received, downloaded_size, content>>
    /\ UNCHANGED <<engineVars, propsVars, httpVars>>

\* Lines 68-69; the ValueError of int() and of the check leave the function.
DlCheckSize ==
    /\ dpc = "size_check"
    /\ LET content_length == head_response.content_length
       IN  IF ~HeaderGiven(content_length)
           THEN dlOut' = dlOut /\ dpc' = "type_check"
           ELSE IF IntRaises(content_length) \/ TooLarge(content_length.n)
           THEN dlOut' = Raise("ValueError") /\ dpc' = "done"
           ELSE dlOut' = dlOut /\ dpc' = "type_check"
    /\ UNCHANGED <<url, dlLocals, engineVars, propsVars, httpVars>>

\* Lines 72-73.
DlCheckType ==
    /\ dpc = "type_check"
    /\ IF ~Supported(head_response.content_type)
       THEN dlOut' = Raise("RuntimeError") /\ dpc' = "done"
       ELSE dlOut' = dlOut /\ dpc' = "get"
    /\ UNCHANGED <<url, dlLocals, engineVars, propsVars, httpVars>>

\* Lines 76-81: the GET request, raise_for_status(), the empty buffer.
DlGet ==
    /\ dpc = "get"
    /\ getIssued' = TRUE
    /\ \E result \in RequestResults :
          IF result # "ok"
          THEN dlOut' = OnRequestException(result) /\ dpc' = "done"
          ELSE dlOut' = dlOut /\ dpc' = "stream"
    /\ content' = <<>> /\ downloaded_size' = 0
    /\ UNCHANGED <<url, head_response, received>>
    /\ UNCHANGED <<engineVars, propsVars, httpVars>>

\* Lines 83-88: one turn of the loop over iter_content.
DlChunk ==
    /\ dpc = "stream"
    /\ Len(received) < MaxChunks
    /\ \E len \in ChunkSizes :
          LET chunk == [k |-> Len(received) + 1, len |-> len]
          IN  /\ received' = Append(received, chunk)
              /\ IF chunk.len = 0
                 THEN UNCHANGED <<downloaded_size, content, dlOut, dpc>>
                 ELSE /\ downloaded_size' = downloaded_size + chunk.len
                      /\ IF TooLarge(downloaded_size')
                         THEN dlOut' = Raise("ValueError") /\ dpc' = "done"
                              /\ UNCHANGED content
                         ELSE content' = Append(content, chunk)
                              /\ UNCHANGED <<dlOut, dpc>>
    /\ UNCHANGED <<url, head_response, getIssued>>
    /\ UNCHANGED <<engineVars, propsVars, httpVars>>

\* Line 83: the connection fails while the body is read.
DlStreamFails ==
    /\ dpc = "stream"
    /\ \E e \in RequestResults \ {"ok", "HTTPError"} : dlOut' = OnRequestException(e)
    /\ dpc' = "done"
    /\ UNCHANGED <<url, dlLocals, engineVars, propsVars, httpVars>>

\* Lines 90-93: the body ended; return the chunks written to the buffer,
\* in order.
DlReturn ==
    /\ dpc = "stream"
    /\ dlOut' = Return(content)
    /\ dpc' = "done"
    /\ UNCHANGED <<url, dlLocals, engineVars, propsVars, httpVars>>

NextDownload ==
    \/ CallDownload \/ DlCheckUrl \/ DlHead \/ DlCheckSize \/ DlCheckType
    \/ DlGet \/ DlChunk \/ DlStreamFails \/ DlReturn

SpecDownload == Init /\ [][NextDownload]_vars

(* ------------------------------- claims ------------------------------- *)

CompareEnded == entry \in {"compare", "detect"} /\ cmpOut.kind # "pending"

\* A decoded image: a PIL image whose pixel data is there.
Decoded(a) == IsImage(a) /\ a.ok

ThresholdInRange == 0 <= threshold /\ threshold <= Unit

SmallerThanMin(a) == a.w < 32 \/ a.h < 32

\* C1: for two decoded images and a threshold in [0,1], if either image has
\* width < 32 or height < 32, compare_images fails with ValueError.
C1_SmallImageIsValueError ==
    ( /\ CompareEnded
      /\ Decoded(arg1) /\ Decoded(arg2) /\ ThresholdInRange
      /\ (SmallerThanMin(arg1) \/ SmallerThanMin(arg2)) )
    => cmpOut = Raise("ValueError")

\* C2: if either argument is not an image, or the threshold is < 0 or > 1,
\* compare_images fails with ValueError and no conversion, size check,
\* resize or SSIM step is ever executed, whatever the other arguments are.
C2_ValidationFirst ==
    ( /\ entry \in {"compare", "detect"}
      /\ (~IsImage(arg1) \/ ~IsImage(arg2) \/ threshold < 0 \/ threshold > Unit) )
    => /\ done = {}
       /\ pc \notin {"cmp_convert", "cmp_size", "cmp_target", "cmp_resize", "cmp_gray",
                     "cmp_ssim", "cmp_clamp", "cmp_except"}
       /\ cmpOut.kind # "pending" => cmpOut = Raise("ValueError")

C2_Witness ==
    /\ entry = "compare" /\ pc = "done"
    /\ Decoded(arg1) /\ SmallerThanMin(arg1) /\ IsImage(arg2)
    /\ threshold < 0
    /\ cmpOut = Raise("ValueError") /\ done = {}

\* C3: when detect_manipulation returns, its score is the score
\* compare_images returned and manipulated is true exactly when
\* score < threshold; score = threshold gives manipulated = false.
C3_VerdictIsScoreBelowThreshold ==
    detOut.kind = "return"
    => /\ cmpOut.kind = "return"
       /\ detOut.value.score = cmpOut.value
       /\ detOut.value.manipulated <=> (cmpOut.value.v < threshold)

C3_Witness ==
    /\ detOut.kind = "return"
    /\ detOut.value.score = Fin(threshold)
    /\ threshold > 0
    /\ detOut.value.manipulated = FALSE

\* C4: the message of detect_manipulation agrees with its verdict: a
\* manipulated result carries "Manipulation detected (confidence: X%)" with
\* X = (t - score) / t * 100, any other result "No manipulation detected
\* (similarity: X%)" with X = score * 100, X printed to one decimal.
C4_MessageMatchesVerdict ==
    detOut.kind = "return"
    => LET r == detOut.value
           s == r.score.v
           t == threshold
           x == r.message.tenths
       IN  IF r.manipulated
           THEN /\ r.message.text = "Manipulation detected (confidence: "
                /\ t > 0
                /\ 2 * Abs(x * t - 1000 * (t - s)) <= t
           ELSE /\ r.message.text = "No manipulation detected (similarity: "
                /\ 2 * Abs(x * Unit - 1000 * s) <= Unit

C4_Witness ==
    /\ detOut.kind = "return"
    /\ detOut.value.manipulated
    /\ detOut.value.message.tenths \in 1 .. 999

\* C5: for two identical RGB images of at least 32x32 pixels compare_images
\* returns a score >= 0.95, and detect_manipulation at the default threshold
\* reports manipulated = false with a "No manipulation detected" message.
C5_IdenticalImages ==
    ( /\ entry \in {"compare", "detect"} /\ pc = "done"
      /\ Decoded(arg1) /\ arg2 = arg1 /\ arg1.mode = "RGB"
      /\ ~SmallerThanMin(arg1) /\ ThresholdInRange )
    => /\ cmpOut.kind = "return"
       /\ IsFinite(cmpOut.value)
       /\ 100 * cmpOut.value.v >= 95 * Unit
       /\ (entry = "detect" /\ threshold = DEFAULT_MANIPULATION_THRESHOLD)
          => /\ detOut.kind = "return"
             /\ detOut.value.manipulated = FALSE
             /\ detOut.value.message.text = "No manipulation detected (similarity: "

C5_Witness ==
    /\ entry = "detect" /\ pc = "done"
    /\ Decoded(arg1) /\ arg2 = arg1 /\ arg1.mode = "RGB" /\ ~SmallerThanMin(arg1)
    /\ ~IsUniform(arg1.cols)
    /\ threshold = DEFAULT_MANIPULATION_THRESHOLD
    /\ detOut.kind = "return" /\ detOut.value.manipulated = FALSE

IsSolid(a, c) == Decoded(a) /\ a.mode = "RGB" /\ \A x \in DOMAIN a.cols : a.cols[x] = c

BlackAndWhite ==
    /\ IsImage(arg1) /\ IsImage(arg2)
    /\ \/ IsSolid(arg1, <<0, 0, 0>>) /\ IsSolid(arg2, <<255, 255, 255>>)
       \/ IsSolid(arg1, <<255, 255, 255>>) /\ IsSolid(arg2, <<0, 0, 0>>)
    /\ arg1.w = arg2.w /\ arg1.h = arg2.h
    /\ ~SmallerThanMin(arg1)

\* C6: for a full-black and a full-white image of equal size >= 32x32
\* compare_images returns a score in [0, 0.3] and detect_manipulation at the
\* default threshold reports manipulated = true.
C6_BlackVersusWhite ==
    ( /\ entry \in {"compare", "detect"} /\ pc = "done"
      /\ BlackAndWhite /\ ThresholdInRange )
    => /\ cmpOut.kind = "return"
       /\ IsFinite(cmpOut.value)
       /\ 0 <= cmpOut.value.v /\ 10 * cmpOut.value.v <= 3 * Unit
       /\ (entry = "detect" /\ threshold = DEFAULT_MANIPULATION_THRESHOLD)
          => /\ detOut.kind = "return"
             /\ detOut.value.manipulated = TRUE

C6_Witness ==
    /\ entry = "detect" /\ pc = "done" /\ BlackAndWhite
    /\ threshold = DEFAULT_MANIPULATION_THRESHOLD
    /\ detOut.kind = "return" /\ detOut.value.manipulated = TRUE
    /\ 10 * detOut.value.score.v <= 3 * Unit

\* C7: every score compare_images returns lies in [0.0, 1.0], whatever
\* float the SSIM computation produced.
C7_ScoreInUnitInterval ==
    cmpOut.kind = "return"
    => /\ IsFinite(cmpOut.value)
       /\ 0 <= cmpOut.value.v /\ cmpOut.value.v <= Unit

C7_Witness ==
    /\ cmpOut.kind = "return"
    /\ IsFinite(ssim_value) /\ ssim_value.v > Unit
    /\ cmpOut.value = Fin(Unit)

\* C8: if the SSIM computation produces NaN, +Inf or -Inf, compare_images
\* fails with RuntimeError and returns no score.
C8_NonFiniteIsRuntimeError ==
    ( /\ CompareEnded
      /\ ssim_value # Unset /\ ~IsFinite(ssim_value) )
    => cmpOut = Raise("RuntimeError")

DiffEnded == entry = "difference" /\ pc = "done"

\* A complete RGB image: every column of every row holds three 8-bit values.
CompleteImage(a) ==
    /\ IsImage(a) /\ a.mode = "RGB"
    /\ DOMAIN a.cols = 0 .. a.w - 1
    /\ \A x \in DOMAIN a.cols : a.cols[x] \in [1 .. 3 -> 0 .. 255]

\* C9: generate_difference_image never propagates an error: for every
\* input it returns a complete image or None.
C9_DifferenceNeverRaises ==
    entry = "difference"
    => /\ diffOut.kind # "raise"
       /\ pc = "done"
          => /\ diffOut.kind = "return"
             /\ diffOut.value.kind = "None" \/ CompleteImage(diffOut.value)

C9_Witness ==
    /\ DiffEnded
    /\ Decoded(arg1) /\ ~IsImage(arg2)
    /\ diffOut = Return([kind |-> "None"])

DiffReturnedImage == DiffEnded /\ diffOut.kind = "return" /\ IsImage(diffOut.value)

Amplified(a, b) == IF 3 * Abs(a - b) > 255 THEN 255 ELSE 3 * Abs(a - b)

\* Two solid fills that differ by 50 in every channel.
SolidsFiftyApart ==
    /\ IsUniform(arg1.cols) /\ IsUniform(arg2.cols)
    /\ arg1.mode = "RGB" /\ arg2.mode = "RGB"
    /\ \A ch \in 1 .. 3 : Abs(arg1.cols[0][ch] - arg2.cols[0][ch]) = 50

\* C10: an image generate_difference_image returns has size
\* (min(w1,w2), min(h1,h2)) and every channel value of every pixel is
\* min(255, 3 |a - b|) of the resized inputs' values; for two solid fills
\* 50 apart in every channel every value is 150.
C10_DifferencePixels ==
    DiffReturnedImage
    => LET d == diffOut.value
       IN  /\ d.w = Min(arg1.w, arg2.w) /\ d.h = Min(arg1.h, arg2.h)
           /\ \A x \in 0 .. d.w - 1, y \in 0 .. d.h - 1, ch \in 1 .. 3 :
                 Pixel(d, x, y)[ch] = Amplified(Pixel(img1_resized, x, y)[ch],
                                                Pixel(img2_resized, x, y)[ch])
           /\ SolidsFiftyApart
              => \A x \in 0 .. d.w - 1, y \in 0 .. d.h - 1, ch \in 1 .. 3 :
                    Pixel(d, x, y)[ch] = 150

C10_Witness ==
    /\ DiffReturnedImage
    /\ SolidsFiftyApart
    /\ arg1.w > arg2.w /\ arg1.h < arg2.h
    /\ \A x \in 0 .. diffOut.value.w - 1 : diffOut.value.cols[x] = <<150, 150, 150>>

\* C11: generate_difference_image normalizes as compare_images does, the
\* 32x32 floor included: it yields an image only when neither input is
\* smaller than 32 in width or height, and every image it returns is at
\* least 32x32.
C11_DifferenceKeepsFloor ==
    DiffReturnedImage
    => /\ ~SmallerThanMin(arg1) /\ ~SmallerThanMin(arg2)
       /\ diffOut.value.w >= 32 /\ diffOut.value.h >= 32

AtLeastMin(size) == size[1] >= 32 /\ size[2] >= 32

\* C12: every pair that reaches the resize and SSIM steps of compare_images
\* is a NormalizedPair: both RGB, target size (min(w1,w2), min(h1,h2)), so
\* nothing is upscaled, and at least 32x32; once both images passed the
\* per-image gate the target-size gate cannot fire.
C12_NormalizedPair ==
    /\ pc = "cmp_target"
       => AtLeastMin(<<Min(img1.w, img2.w), Min(img1.h, img2.h)>>)
    /\ (pc = "cmp_except" /\ exc = "ValueError")
       => SmallerThanMin(arg1) \/ SmallerThanMin(arg2)
    /\ pc \in {"cmp_resize", "cmp_gray", "cmp_ssim", "cmp_clamp"}
       => /\ img1.mode = "RGB" /\ img2.mode = "RGB"
          /\ target_size = <<Min(arg1.w, arg2.w), Min(arg1.h, arg2.h)>>
          /\ target_size[1] <= img1.w /\ target_size[1] <= img2.w
          /\ target_size[2] <= img1.h /\ target_size[2] <= img2.h
          /\ AtLeastMin(target_size)
    /\ pc \in {"cmp_gray", "cmp_ssim", "cmp_clamp"}
       => /\ img1_resized.mode = "RGB" /\ img2_resized.mode = "RGB"
          /\ <<img1_resized.w, img1_resized.h>> = target_size
          /\ <<img2_resized.w, img2_resized.h>> = target_size

C12_Witness ==
    /\ pc = "cmp_ssim"
    /\ arg1.w > arg2.w /\ arg1.h < arg2.h
    /\ <<img1_resized.w, img1_resized.h>> = <<arg2.w, arg1.h>>

\* C16: in detect_manipulation the confidence is always defined and
\* bounded: for every threshold in [0,1] (0 included) and every score the
\* manipulated branch is taken only with threshold > 0, nothing divides by
\* zero, and the confidence lies in [0,100] in both branches.
C16_ConfidenceDefinedAndBounded ==
    (entry = "detect" /\ pc = "done" /\ cmpOut.kind = "return")
    => /\ detOut.kind = "return"
       /\ detOut.value.manipulated => threshold > 0
       /\ confidence.den > 0
       /\ 0 <= confidence.num /\ confidence.num <= 100 * confidence.den

C16_Witness ==
    /\ entry = "detect" /\ pc = "done"
    /\ threshold = 0
    /\ detOut.kind = "return" /\ detOut.value.score = Fin(0)
    /\ confidence = [num |-> 0, den |-> Unit]

PropsEnded == ppc = "done"

HeaderKeys == {"dimensions", "mode", "format", "has_exif"}
StatsKeys == {"mean_intensity", "std_intensity", "min_intensity", "max_intensity"}

\* C13: analyze_image_properties never raises, and its result is either a
\* property record with dimensions, mode, format and the metadata flag and
\* no error field, or a record with only an error field, also when the
\* failure comes after some fields were computed.
C13_PropertiesOrErrorOnly ==
    /\ propsOut.kind # "raise"
    /\ PropsEnded
       => /\ propsOut.kind = "return"
          /\ LET keys == DOMAIN propsOut.value
             IN  \/ keys = {"error"}
                 \/ HeaderKeys \subseteq keys /\ "error" \notin keys

C13_Witness ==
    /\ PropsEnded
    /\ IsImage(pimg) /\ ~pimg.ok
    /\ properties # Unset
    /\ DOMAIN propsOut.value = {"error"}

\* C14: in a successful result the four intensity statistics are present
\* exactly when the mode is RGB or L, all four or none, and every other
\* mode still gets dimensions, mode and format.
C14_StatsIffRgbOrL ==
    (PropsEnded /\ propsOut.kind = "return" /\ "error" \notin DOMAIN propsOut.value)
    => LET keys == DOMAIN propsOut.value
       IN  /\ (pimg.mode \in {"RGB", "L"}) <=> (StatsKeys \subseteq keys)
           /\ StatsKeys \subseteq keys \/ StatsKeys \cap keys = {}
           /\ {"dimensions", "mode", "format"} \subseteq keys
           /\ propsOut.value.dimensions = <<pimg.w, pimg.h>>
           /\ propsOut.value.mode = pimg.mode
           /\ propsOut.value.format = pimg.format

C14_Witness ==
    /\ PropsEnded /\ propsOut.kind = "return"
    /\ IsImage(pimg) /\ pimg.mode = "RGBA"
    /\ DOMAIN propsOut.value = HeaderKeys
    /\ propsOut.value.dimensions = <<pimg.w, pimg.h>>

HttpEnded == hpc = "done"

\* The body is JSON with both URL fields as non-empty strings.
RequestWellFormed ==
    /\ request.is_json
    /\ request.body.t = "dict"
    /\ UrlFields \subseteq DOMAIN request.body.fields
    /\ \A f \in UrlFields :
          IsStr(request.body.fields[f]) /\ Strip(request.body.fields[f].s) # <<>>

BothDownloaded == original_data.kind = "return" /\ suspect_data.kind = "return"

BothImages == original_type = Return("image") /\ suspect_type = Return("image")

ErrorOnly == DOMAIN response.body = {"error"}

\* The one path the handler answers 200 on.
SuccessPath ==
    /\ RequestWellFormed /\ BothDownloaded /\ BothImages
    /\ detectCalled /\ detOut.kind = "return"

\* C15 as stated: 200 only on the success path, and on every other path
\* detect_manipulation is never called and the answer is 400 or 500 with
\* an error field.
C15_DetectCalledOnlyOn200 ==
    HttpEnded
    => IF response.status = 200
       THEN SuccessPath
       ELSE ~detectCalled /\ response.status \in {400, 500} /\ ErrorOnly

\* A download raised something other than RequestException or ValueError.
DownloadOtherException ==
    \/ original_data.kind = "raise" /\ original_data.exc = "RuntimeError"
    \/ suspect_data.kind = "raise" /\ suspect_data.exc = "RuntimeError"

\* C15, amended: the handler answers 200 only on the path where the body
\* is JSON with both URL fields as non-empty strings, both downloads
\* succeeded, both payloads validated as 'image' and the detection call
\* returned; every other answer is 400 or 500 with only an error field.
\* Detection is called only after all those checks passed, never on a path
\* answered with 400, and a 500 after it was called means that it raised
\* or that its result could not be serialised. A download exception other
\* than RequestException and ValueError is answered with 500.
C15_SuccessPathAndErrors ==
    /\ detectCalled => RequestWellFormed /\ BothDownloaded /\ BothImages
    /\ HttpEnded
       => /\ response.status \in {200, 400, 500}
          /\ response.status = 200
             => SuccessPath /\ "error" \notin DOMAIN response.body
          /\ response.status # 200 => ErrorOnly
          /\ response.status = 400 => ~detectCalled
          /\ (response.status = 500 /\ detectCalled)
             => \/ detOut.kind = "raise"
                \/ detOut.kind = "return" /\ JsonifyRaises(IsNumpyScalar(ssim_value))
          /\ DownloadOtherException => response.status = 500

\* Detection was called on two images below the minimum size, raised, and
\* the handler answered 500.
C15_Witness ==
    /\ HttpEnded /\ detectCalled
    /\ detOut = Raise("RuntimeError")
    /\ response.status = 500
    /\ SmallerThanMin(arg1)

DownloadEnded == dpc = "done"

\* The lengths of the chunks of a sequence, added up.
TotalLen(chunks) == SumSeq([i \in DOMAIN chunks |-> chunks[i].len], 1)

\* The chunks received with the empty ones left out: what their
\* concatenation consists of.
NonEmpty(chunk) == chunk.len > 0
Concatenation(chunks) == SelectSeq(chunks, NonEmpty)

\* The running total exceeded the limit at the last chunk received, and not
\* before it.
ExceededAtLastChunk ==
    /\ received # <<>>
    /\ TotalLen(received) > MAX_FILE_SIZE
    /\ TotalLen(SubSeq(received, 1, Len(received) - 1)) <= MAX_FILE_SIZE

\* The HEAD response passed the status, size and content-type checks.
HeadPassed ==
    /\ head_response # Unset
    /\ head_response.status = "ok"
    /\ LET cl == head_response.content_length
       IN  (cl.present /\ cl.text # "empty") => (cl.text = "digits" /\ cl.n <= MAX_FILE_SIZE)
    /\ \E i \in DOMAIN head_response.content_type :
          head_response.content_type[i]
              \in IMAGE_MIME_TYPES \cup VIDEO_MIME_TYPES \cup {"IMAGE/PNG"}

\* C17: download_media never returns more than MAX_FILE_SIZE bytes.
\* Whatever chunks arrive and whatever the content-length header said, it
\* returns the concatenation of the chunks received, of total length at
\* most MAX_FILE_SIZE, or raises ValueError at the first chunk that takes
\* the running total over the limit and reads no further; the GET is
\* issued only after the HEAD response passed the status, size and
\* content-type checks.
C17_SizeLimitAndHeadFirst ==
    /\ getIssued => HeadPassed
    /\ dpc = "stream" => TotalLen(received) <= MAX_FILE_SIZE
    /\ (DownloadEnded /\ dlOut.kind = "return")
       => /\ dlOut.value = Concatenation(received)
          /\ TotalLen(dlOut.value) <= MAX_FILE_SIZE
          /\ TotalLen(dlOut.value) = TotalLen(received)
    /\ (DownloadEnded /\ getIssued /\ dlOut = Raise("ValueError"))
       <=> (DownloadEnded /\ ExceededAtLastChunk)

\* The header understated the size, the second chunk took the total over
\* the limit, and ValueError was raised.
C17_Witness ==
    /\ DownloadEnded /\ getIssued /\ dlOut = Raise("ValueError")
    /\ head_response.content_length = Digits(1)
    /\ Len(received) = 2 /\ received[1].len = MAX_FILE_SIZE
    /\ content = <<received[1]>>

=============================================================================
